---- MODULE Spec2Model ----
(***************************************************************************)
(* Task state machine and reminder scheduler of the task logging bot       *)
(* (ai_assistant_bot.py, clarification_utils.py, database.py).              *)
(*                                                                         *)
(* Instants are minutes since midnight of day 0.  Strings that the code    *)
(* inspects (titles, message texts) are sequences of one-character         *)
(* strings.  A row of the tasks table is a record; the position of a row   *)
(* in `tasks` is its creation order and never changes (rows are never      *)
(* deleted), while the `id` column is a column like any other.             *)
(***************************************************************************)
EXTENDS Integers, Sequences, FiniteSets, TLC

\* ------------------------------------------------------------------ bounds
MaxTasks == 2         \* rows the table may hold
MaxTime == 665        \* last instant the clock may reach
StartTime == 595      \* 09:55 of day 0, the instant the process starts
TickStep == 35        \* minutes the clock advances in one step
MaxSlot == 3          \* the first MaxSlot buttons of TIME_SLOTS are clicked
MaxSends == 2         \* the delivery counter saturates here

\* --------------------------------------------------------- program constants
DayMinutes == 1440
HourMinutes == 60
GraceMinutes == 15
NoPriorityRank == 4

Users == {1, 2}
None == -1            \* NULL in a DateTime column

VARIABLES
    tasks,                  \* the tasks table (committed rows)
    jobs,                   \* date-trigger jobs of the AsyncIOScheduler
    firing,                 \* send_reminder coroutines awaiting send_message
    has_pc,                 \* hasattr(self, 'pending_clarifications')
    pending_clarifications, \* message_hash -> index of the original message
    now,                    \* datetime.now()
    out                     \* what the last step sent to the chat

vars == <<tasks, jobs, firing, has_pc, pending_clarifications, now, out>>

\* ------------------------------------------------------------ characters
UpperChars == <<"A","B","C","D","E","F","G","H","I","J","K","L","M",
                "N","O","P","Q","R","S","T","U","V","W","X","Y","Z">>
LowerChars == <<"a","b","c","d","e","f","g","h","i","j","k","l","m",
                "n","o","p","q","r","s","t","u","v","w","x","y","z">>
DigitChars == {"0","1","2","3","4","5","6","7","8","9"}

IsUpper(c) == \E i \in 1..26 : UpperChars[i] = c
IsLower(c) == \E i \in 1..26 : LowerChars[i] = c
IsAlpha(c) == IsUpper(c) \/ IsLower(c)
IsSpace(c) == c = " "
IsWordChar(c) == IsAlpha(c) \/ c \in DigitChars \/ c = "_"

ToLower(c) == IF IsUpper(c) THEN LowerChars[CHOOSE i \in 1..26 : UpperChars[i] = c] ELSE c
ToUpper(c) == IF IsLower(c) THEN UpperChars[CHOOSE i \in 1..26 : LowerChars[i] = c] ELSE c

\* str.lower()
lower(s) == [i \in 1..Len(s) |-> ToLower(s[i])]

\* s[i:i+len(p)] == p
MatchAt(s, i, p) ==
    /\ i >= 1
    /\ i + Len(p) - 1 <= Len(s)
    /\ \A j \in 1..Len(p) : s[i + j - 1] = p[j]

\* p in s
Contains(s, p) == \E i \in 1..(Len(s) + 1) : MatchAt(s, i, p)

\* ------------------------------------------------------------ date strings
\* A '%Y-%m-%d %H:%M:%S' string is the record of its day, hour and minute;
\* k = "junk" is a string dateutil cannot parse, k = "none" a missing or
\* empty value.
strftime(t) == [k |-> "dt", d |-> t \div DayMinutes,
                hh |-> (t % DayMinutes) \div HourMinutes, mm |-> t % HourMinutes]
JunkDate == [k |-> "junk", d |-> 0, hh |-> 0, mm |-> 0]
NoDate == [k |-> "none", d |-> 0, hh |-> 0, mm |-> 0]

\* date_parser.parse / datetime.strptime of a well-formed string
parse(ds) == ds.d * DayMinutes + ds.hh * HourMinutes + ds.mm

\* ------------------------------------------------------------ the store
Keys(db) == 1..Len(db)

\* a lookup that forgets the user_id filter
query_first_any_user(db, task_id, user_id) ==
    IF \E k \in Keys(db) : db[k].id = task_id
    THEN CHOOSE k \in Keys(db) : db[k].id = task_id
    ELSE 0

\* db.query(Task).filter(Task.id == task_id, Task.user_id == user_id).first()
\* gives the position of the row, 0 for None
query_first(db, task_id, user_id) ==
    IF \E k \in Keys(db) : db[k].id = task_id /\ db[k].user_id = user_id
    THEN CHOOSE k \in Keys(db) : db[k].id = task_id /\ db[k].user_id = user_id
    ELSE 0

\* the rowid SQLite assigns to an inserted row: one more than the largest
NextId(db) ==
    IF Len(db) = 0 THEN 1
    ELSE 1 + (CHOOSE m \in {db[k].id : k \in Keys(db)} :
                 \A k \in Keys(db) : db[k].id <= m)

\* primary key constraint
UniqueIds(db) == \A j, k \in Keys(db) : j # k => db[j].id # db[k].id

\* Task(...) as inserted: column defaults reminder_sent = False,
\* updated_at = utcnow; sends counts the reminders delivered for the row
Task(db, user_id, title, due_date, reminder_at, priority, clock) ==
    [id |-> NextId(db), user_id |-> user_id, title |-> title,
     due_date |-> due_date, reminder_at |-> reminder_at,
     priority |-> priority, status |-> "pending",
     reminder_sent |-> FALSE, updated_at |-> clock, sends |-> 0]

\* session commit: a row whose columns changed gets onupdate updated_at
commit(old, new, clock) ==
    [k \in Keys(new) |->
        IF k \in Keys(old) /\ [new[k] EXCEPT !.sends = 0] # [old[k] EXCEPT !.sends = 0]
        THEN [new[k] EXCEPT !.updated_at = clock]
        ELSE new[k]]

\* ------------------------------------------------------------ listing
\* rows come back from SQLite in rowid order
RECURSIVE ByRowid(_, _)
ByRowid(db, S) ==
    IF S = {} THEN <<>>
    ELSE LET k == CHOOSE k \in S : \A j \in S : db[k].id <= db[j].id
         IN <<k>> \o ByRowid(db, S \ {k})

priority_rank(p) ==
    CASE p = "urgent" -> 0
      [] p = "high" -> 1
      [] p = "medium" -> 2
      [] p = "low" -> 3
      [] OTHER -> NoPriorityRank

\* a sort key without its first component: rows with no due date come first
sort_key_less_nulls_first(a, b) ==
    IF (a.due_date = None) # (b.due_date = None) THEN a.due_date = None
    ELSE IF a.due_date # b.due_date THEN a.due_date < b.due_date
    ELSE priority_rank(a.priority) < priority_rank(b.priority)

\* (t.due_date is None, t.due_date, rank) < (...) as Python compares tuples
sort_key_less(a, b) ==
    IF (a.due_date = None) # (b.due_date = None) THEN b.due_date = None
    ELSE IF a.due_date # b.due_date THEN a.due_date < b.due_date
    ELSE priority_rank(a.priority) < priority_rank(b.priority)

\* list.sort(key=...) is stable: an element goes after every element that
\* is not greater than it
RECURSIVE insert_sorted(_, _, _)
insert_sorted(db, sorted, k) ==
    IF sorted = <<>> THEN <<k>>
    ELSE IF sort_key_less(db[k], db[Head(sorted)]) THEN <<k>> \o sorted
    ELSE <<Head(sorted)>> \o insert_sorted(db, Tail(sorted), k)

RECURSIVE sort(_, _, _)
sort(db, acc, rest) ==
    IF rest = <<>> THEN acc
    ELSE sort(db, insert_sorted(db, acc, Head(rest)), Tail(rest))

pending_tasks(db, user_id) ==
    sort(db, <<>>, ByRowid(db, {k \in Keys(db) :
                    db[k].user_id = user_id /\ db[k].status = "pending"}))

Out(kind, user, completed, listing, task) ==
    [kind |-> kind, user |-> user, completed |-> completed,
     listing |-> listing, task |-> task]
NoOut == Out("none", 0, <<>>, <<>>, 0)

\* show_tasks: the reply carries the completed titles (as rows) and the
\* sorted pending rows of the user
show_tasks(db, user_id, completed) ==
    Out("tasks", user_id, completed, pending_tasks(db, user_id), 0)

\* ------------------------------------------------------------ scheduler
Job(task) == [id |-> task.id, user_id |-> task.user_id, run_date |-> task.reminder_at]

\* add_job that keeps a job already stored under the id
schedule_reminder_keep_existing(js, task, clock) ==
    IF task.reminder_at # None /\ task.reminder_at > clock /\ ~task.reminder_sent
    THEN js \cup {Job(task)}
    ELSE js

\* _schedule_reminder, when awaited: add_job(..., id=job_id, replace_existing=True)
schedule_reminder(js, task, clock) ==
    IF task.reminder_at # None /\ task.reminder_at > clock /\ ~task.reminder_sent
    THEN {j \in js : j.id # task.id} \cup {Job(task)}
    ELSE js

NoRes == [empty |-> TRUE, intent |-> "", completions |-> <<>>,
          creations |-> <<>>, updates |-> <<>>]

\* the scheduler wakes up and submits every due job; a date-trigger job is
\* removed when it is submitted.  send_reminder runs up to its first await:
\* it reads the row and, if the row is pending, starts send_message.
send_reminder_read(db, j) ==
    LET k == query_first(db, j.id, j.user_id)
    IN IF k # 0 /\ db[k].status = "pending"
       THEN {[user_id |-> j.user_id, id |-> j.id, key |-> k,
              sent |-> db[k].reminder_sent]}
       ELSE {}

Wakeup ==
    LET due == {j \in jobs : j.run_date <= now}
    IN /\ due # {}
       /\ jobs' = jobs \ due
       /\ firing' = firing \cup UNION {send_reminder_read(tasks, j) : j \in due}
       /\ out' = NoOut
       /\ UNCHANGED <<tasks, has_pc, pending_clarifications, now>>

\* a fire path that delivers and commits without setting the flag
send_reminder_commit_without_flag(db, f, clock) ==
    [db EXCEPT ![f.key].sends = IF @ < MaxSends THEN @ + 1 ELSE @]

\* a fire path that writes the whole row back as it had read it
send_reminder_commit_whole_row(db, f, clock) ==
    [k \in Keys(db) |->
        IF db[k].id = f.id
        THEN [db[k] EXCEPT !.sends = IF @ < MaxSends THEN @ + 1 ELSE @,
                           !.status = "pending",
                           !.reminder_sent = TRUE, !.updated_at = clock]
        ELSE db[k]]

\* send_message returned: task.reminder_sent = True; db.commit().  The
\* UPDATE is keyed by the primary key the row had when it was read, and is
\* emitted only if the attribute changed.
send_reminder_commit(db, f, clock) ==
    LET counted == [db EXCEPT ![f.key].sends =
                        IF @ < MaxSends THEN @ + 1 ELSE @]
    IN IF f.sent THEN counted
       ELSE [k \in Keys(db) |->
                IF db[k].id = f.id
                THEN [counted[k] EXCEPT !.reminder_sent = TRUE, !.updated_at = clock]
                ELSE counted[k]]

SendOk(f) ==
    /\ f \in firing
    /\ firing' = firing \ {f}
    /\ tasks' = send_reminder_commit(tasks, f, now)
    /\ out' = Out("reminder", f.user_id, <<>>, <<>>, f.key)
    /\ UNCHANGED <<jobs, has_pc, pending_clarifications, now>>

\* a failed delivery that arms the timer again
SendFailRearm(f) ==
    /\ f \in firing
    /\ firing' = firing \ {f}
    /\ jobs' = jobs \cup {[id |-> f.id, user_id |-> f.user_id, run_date |-> now]}
    /\ out' = NoOut
    /\ UNCHANGED <<tasks, has_pc, pending_clarifications, now>>

\* send_message raised: logged, nothing committed, nothing re-armed
SendFail(f) ==
    /\ f \in firing
    /\ firing' = firing \ {f}
    /\ out' = NoOut
    /\ UNCHANGED <<tasks, jobs, has_pc, pending_clarifications, now>>

\* ------------------------------------------------------------ sweeper
kw_break == <<"b","r","e","a","k">>
kw_water == <<"w","a","t","e","r">>
kw_exercise == <<"e","x","e","r","c","i","s","e">>
kw_walk == <<"w","a","l","k">>
kw_stretch == <<"s","t","r","e","t","c","h">>
kw_rest == <<"r","e","s","t">>
kw_breathe == <<"b","r","e","a","t","h","e">>
kw_drink == <<"d","r","i","n","k">>
kw_hydrate == <<"h","y","d","r","a","t","e">>
wellness_keywords == {kw_break, kw_water, kw_exercise, kw_walk, kw_stretch,
                      kw_rest, kw_breathe, kw_drink, kw_hydrate}

\* a sweep that forgets the priority guard of the grace branch
sweep_completes_any_priority(t, clock) ==
    /\ t.status = "pending"
    /\ t.due_date # None
    /\ t.due_date < clock
    /\ \E kw \in wellness_keywords : Contains(lower(t.title), kw)
    /\ \/ Contains(lower(t.title), kw_break)
       \/ t.due_date < clock - GraceMinutes

\* a sweep that forgets the keyword filter
sweep_completes_any_title(t, clock) ==
    /\ t.status = "pending"
    /\ t.due_date # None
    /\ t.due_date < clock
    /\ \/ Contains(lower(t.title), kw_break)
       \/ t.due_date < clock - GraceMinutes /\ t.priority = "low"

sweep_completes(t, clock) ==
    /\ t.status = "pending"
    /\ t.due_date # None
    /\ t.due_date < clock
    /\ \E kw \in wellness_keywords : Contains(lower(t.title), kw)
    /\ \/ Contains(lower(t.title), kw_break)
       \/ t.due_date < clock - GraceMinutes /\ t.priority = "low"

\* the table after one run of the sweeper: the rows it selects are
\* completed and committed together
sweep_tasks(db, clock) ==
    commit(db,
           [k \in Keys(db) |->
               IF sweep_completes(db[k], clock)
               THEN [db[k] EXCEPT !.status = "completed"]
               ELSE db[k]], clock)

cleanup_expired_wellness_tasks ==
    /\ tasks' = sweep_tasks(tasks, now)
    /\ out' = NoOut
    /\ UNCHANGED <<jobs, firing, has_pc, pending_clarifications, now>>

\* ------------------------------------------------------------ clock, process
\* the scheduler runs a due job before the clock moves on
Tick ==
    /\ now + TickStep <= MaxTime
    /\ \A j \in jobs : j.run_date > now
    /\ now' = now + TickStep
    /\ out' = NoOut
    /\ UNCHANGED <<tasks, jobs, firing, has_pc, pending_clarifications>>

\* the process stops and starts again: __init__ and post_init build a new
\* scheduler holding only the two interval jobs; the table survives
Restart ==
    /\ jobs' = {}
    /\ firing' = {}
    /\ has_pc' = FALSE
    /\ pending_clarifications' = {}
    /\ out' = NoOut
    /\ UNCHANGED <<tasks, now>>

\* ------------------------------------------------------------ clarification
\* a vague-time pattern: \b<lit>\b, and for the last one the negative
\* lookahead (?!\s+at|\s+\d)
Pat(lit, la) == [lit |-> lit, la |-> la]
VAGUE_TIME_PATTERNS == <<
    Pat(<<"s","o","m","e","t","i","m","e"," ","t","o","d","a","y">>, FALSE),
    Pat(<<"l","a","t","e","r"," ","t","o","d","a","y">>, FALSE),
    Pat(<<"l","a","t","e","r">>, FALSE),
    Pat(<<"s","o","o","n">>, FALSE),
    Pat(<<"i","n"," ","a"," ","b","i","t">>, FALSE),
    Pat(<<"i","n"," ","a"," ","w","h","i","l","e">>, FALSE),
    Pat(<<"t","h","i","s"," ","a","f","t","e","r","n","o","o","n">>, FALSE),
    Pat(<<"t","h","i","s"," ","e","v","e","n","i","n","g">>, FALSE),
    Pat(<<"t","o","d","a","y">>, TRUE) >>

\* first index >= i of s that holds no whitespace (Len(s) + 1 if none)
RECURSIVE skip_space(_, _)
skip_space(s, i) ==
    IF i <= Len(s) /\ IsSpace(s[i]) THEN skip_space(s, i + 1) ELSE i

\* \s+at|\s+\d matches at index e
time_follows(s, e) ==
    /\ e <= Len(s)
    /\ IsSpace(s[e])
    /\ LET j == skip_space(s, e)
       IN j <= Len(s) /\ (MatchAt(s, j, <<"a","t">>) \/ s[j] \in DigitChars)

\* the pattern matches s at index i
pat_match_at(p, s, i) ==
    /\ MatchAt(s, i, p.lit)
    /\ i = 1 \/ ~IsWordChar(s[i - 1])
    /\ i + Len(p.lit) > Len(s) \/ ~IsWordChar(s[i + Len(p.lit)])
    /\ p.la => ~time_follows(s, i + Len(p.lit))

re_search(p, s) == \E i \in 1..Len(s) : pat_match_at(p, s, i)

\* a test that takes every "today" for vague, followed by a time or not
needs_clarification_without_lookahead(text) ==
    \E n \in 1..Len(VAGUE_TIME_PATTERNS) :
        re_search([VAGUE_TIME_PATTERNS[n] EXCEPT !.la = FALSE], lower(text))

needs_clarification(text) ==
    \E n \in 1..Len(VAGUE_TIME_PATTERNS) : re_search(VAGUE_TIME_PATTERNS[n], lower(text))

\* str.strip()
RECURSIVE rstrip(_)
rstrip(s) ==
    IF s # <<>> /\ IsSpace(s[Len(s)]) THEN rstrip(SubSeq(s, 1, Len(s) - 1)) ELSE s
strip(s) == LET j == skip_space(s, 1) IN rstrip(SubSeq(s, j, Len(s)))

\* re.sub(pattern, '', s): every match, leftmost first, is cut out
RECURSIVE re_sub_from(_, _, _)
re_sub_from(p, s, i) ==
    IF i > Len(s) THEN <<>>
    ELSE IF pat_match_at(p, s, i) THEN re_sub_from(p, s, i + Len(p.lit))
    ELSE <<s[i]>> \o re_sub_from(p, s, i + 1)

RECURSIVE remove_vague(_, _)
remove_vague(s, n) ==
    IF n > Len(VAGUE_TIME_PATTERNS) THEN s
    ELSE remove_vague(strip(re_sub_from(VAGUE_TIME_PATTERNS[n], s, 1)), n + 1)

\* ^(alt1|alt2|...)\s+(.+) with the title prefix of the action
ActionPat(alts, prefix) == [alts |-> alts, prefix |-> prefix]
action_patterns == <<
    ActionPat(<<<<"p","a","y">>, <<"s","e","n","d"," ","m","o","n","e","y"," ","t","o">>, <<"t","r","a","n","s","f","e","r"," ","t","o">>>>, <<"P","a","y">>),
    ActionPat(<<<<"c","a","l","l">>, <<"p","h","o","n","e">>, <<"r","i","n","g">>>>, <<"C","a","l","l">>),
    ActionPat(<<<<"e","m","a","i","l">>, <<"s","e","n","d"," ","e","m","a","i","l"," ","t","o">>, <<"w","r","i","t","e"," ","t","o">>>>, <<"E","m","a","i","l">>),
    ActionPat(<<<<"m","e","e","t">>, <<"m","e","e","t","i","n","g"," ","w","i","t","h">>>>, <<"M","e","e","t"," ","w","i","t","h">>),
    ActionPat(<<<<"b","u","y">>, <<"p","u","r","c","h","a","s","e">>, <<"g","e","t">>>>, <<"B","u","y">>),
    ActionPat(<<<<"r","e","m","i","n","d"," ","m","e"," ","t","o">>, <<"r","e","m","i","n","d","e","r"," ","t","o">>>>, <<"R","e","m","i","n","d","e","r">>),
    ActionPat(<<<<"f","i","n","i","s","h">>, <<"c","o","m","p","l","e","t","e">>, <<"d","o">>>>, <<"F","i","n","i","s","h">>) >>

\* the alternative matches at the start, followed by whitespace and at
\* least one more character
alt_matches(alt, s) ==
    /\ MatchAt(s, 1, alt)
    /\ Len(alt) + 1 <= Len(s)
    /\ IsSpace(s[Len(alt) + 1])
    /\ skip_space(s, Len(alt) + 1) <= Len(s)

action_pat_matches(ap, s) == \E a \in 1..Len(ap.alts) : alt_matches(ap.alts[a], s)

\* match.group(2).strip() for the first alternative that matches
action_pat_object(ap, s) ==
    LET a == CHOOSE a \in 1..Len(ap.alts) :
                /\ alt_matches(ap.alts[a], s)
                /\ \A b \in 1..(a - 1) : ~alt_matches(ap.alts[b], s)
        j == skip_space(s, Len(ap.alts[a]) + 1)
    IN strip(SubSeq(s, j, Len(s)))

\* str.split(): the words of s
RECURSIVE split_from(_, _)
split_from(s, i) ==
    LET j == skip_space(s, i)
    IN IF j > Len(s) THEN <<>>
       ELSE LET e == CHOOSE e \in j..Len(s) :
                        /\ \A x \in j..e : ~IsSpace(s[x])
                        /\ e = Len(s) \/ IsSpace(s[e + 1])
            IN <<SubSeq(s, j, e)>> \o split_from(s, e + 1)
split(s) == split_from(s, 1)

\* ' '.join(words)
RECURSIVE join(_)
join(words) ==
    IF words = <<>> THEN <<>>
    ELSE IF Len(words) = 1 THEN words[1]
    ELSE words[1] \o <<" ">> \o join(Tail(words))

\* str.capitalize() and str.title()
capitalize(s) ==
    [i \in 1..Len(s) |-> IF i = 1 THEN ToUpper(s[i]) ELSE ToLower(s[i])]
title_case(s) ==
    [i \in 1..Len(s) |->
        IF i = 1 \/ ~IsAlpha(s[i - 1]) THEN ToUpper(s[i]) ELSE ToLower(s[i])]

extract_task_action_and_object(text) ==
    LET text_clean == remove_vague(strip(lower(text)), 1)
        words == split(text_clean)
    IN IF \E n \in 1..Len(action_patterns) : action_pat_matches(action_patterns[n], text_clean)
       THEN LET n == CHOOSE n \in 1..Len(action_patterns) :
                        /\ action_pat_matches(action_patterns[n], text_clean)
                        /\ \A m \in 1..(n - 1) : ~action_pat_matches(action_patterns[m], text_clean)
            IN <<action_patterns[n].prefix, action_pat_object(action_patterns[n], text_clean)>>
       ELSE IF Len(words) >= 2
       THEN <<capitalize(words[1]), join(Tail(words))>>
       ELSE <<<<"T","a","s","k">>, text_clean>>

create_task_title(action, object_part) ==
    IF object_part = <<>> THEN action
    ELSE LET object_clean == strip(object_part)
         IN IF lower(action) = <<"p","a","y">> /\ object_clean # <<>>
            THEN <<"P","a","y"," ">> \o title_case(object_clean)
            ELSE IF lower(action) = <<"c","a","l","l">> /\ object_clean # <<>>
            THEN <<"C","a","l","l"," ">> \o title_case(object_clean)
            ELSE IF lower(action) = <<"e","m","a","i","l">> /\ object_clean # <<>>
            THEN <<"E","m","a","i","l"," ">> \o title_case(object_clean)
            ELSE action \o <<" ">> \o object_clean

\* the buttons: ("9:00 AM", "09:00") ... ("8:00 PM", "20:00"), as HH and MM
TIME_SLOTS == [i \in 1..12 |-> [hh |-> 8 + i, mm |-> 0]]

create_task_with_time(original_text, selected_time, clock) ==
    LET ao == extract_task_action_and_object(original_text)
        today == strftime(clock).d
        due_date == [k |-> "dt", d |-> today, hh |-> selected_time.hh,
                     mm |-> selected_time.mm]
    IN [title |-> create_task_title(ao[1], ao[2]),
        due_date |-> due_date,
        reminder_at |-> due_date,
        priority |->
            IF lower(ao[1]) \in {<<"p","a","y">>, <<"t","r","a","n","s","f","e","r">>, <<"s","e","n","d"," ","m","o","n","e","y">>} THEN "high"
            ELSE IF \E w \in {kw_break, kw_water, kw_exercise, kw_rest} :
                        Contains(lower(original_text), w)
            THEN "low"
            ELSE "medium"]

\* ------------------------------------------------------------ action applier
BadItem == -1         \* a completion or update item without an 'id' key

\* a value of fields_to_update, tagged with its JSON type
VStr(x) == [t |-> "str", s |-> x, n |-> 0, b |-> FALSE, ds |-> NoDate, cs |-> <<>>]
VInt(x) == [t |-> "int", s |-> "", n |-> x, b |-> FALSE, ds |-> NoDate, cs |-> <<>>]
VBool(x) == [t |-> "bool", s |-> "", n |-> 0, b |-> x, ds |-> NoDate, cs |-> <<>>]
VDate(x) == [t |-> "date", s |-> "", n |-> 0, b |-> FALSE, ds |-> x, cs |-> <<>>]
VText(x) == [t |-> "text", s |-> "", n |-> 0, b |-> FALSE, ds |-> NoDate, cs |-> x]
VNull == [t |-> "null", s |-> "", n |-> 0, b |-> FALSE, ds |-> NoDate, cs |-> <<>>]

\* an update that clears a date field whose value does not parse
set_field_junk_clears(task, field, v) ==
    CASE field \in {"due_date", "reminder_at"} /\ v.t = "date" /\ v.ds.k = "dt" ->
            [task EXCEPT ![field] = parse(v.ds)]
      [] field \in {"due_date", "reminder_at"} /\ v.t = "date" /\ v.ds.k = "junk" ->
            [task EXCEPT ![field] = None]
      [] field \in {"status", "priority"} /\ v.t = "str" -> [task EXCEPT ![field] = v.s]
      [] OTHER -> task

\* if hasattr(task, field): setattr(task, field, value), a date field with
\* a value being parsed first and skipped when it does not parse
set_field(task, field, v) ==
    CASE field \in {"due_date", "reminder_at"} /\ v.t = "date" /\ v.ds.k = "dt" ->
            [task EXCEPT ![field] = parse(v.ds)]
      [] field \in {"due_date", "reminder_at"} /\ v.t = "date" /\ v.ds.k = "junk" -> task
      [] field \in {"due_date", "reminder_at"} /\ v.t = "null" ->
            [task EXCEPT ![field] = None]
      [] field \in {"status", "priority"} /\ v.t = "str" -> [task EXCEPT ![field] = v.s]
      [] field = "title" /\ v.t = "text" -> [task EXCEPT !.title = v.cs]
      [] field = "reminder_sent" /\ v.t = "bool" -> [task EXCEPT !.reminder_sent = v.b]
      [] field \in {"id", "user_id"} /\ v.t = "int" -> [task EXCEPT ![field] = v.n]
      [] OTHER -> task

RECURSIVE set_fields(_, _)
set_fields(task, fields) ==
    IF fields = <<>> THEN task
    ELSE set_fields(set_field(task, Head(fields).field, Head(fields).value), Tail(fields))

\* for completion in result['completions']: rows are looked up in the
\* table, changed in the session (work)
RECURSIVE complete_loop(_, _, _, _, _)
complete_loop(db, work, user_id, ids, done) ==
    IF ids = <<>> THEN [work |-> work, done |-> done, err |-> FALSE]
    ELSE IF Head(ids) = BadItem THEN [work |-> work, done |-> done, err |-> TRUE]
    ELSE LET k == query_first(db, Head(ids), user_id)
         IN IF k # 0
            THEN complete_loop(db, [work EXCEPT ![k].status = "completed"],
                               user_id, Tail(ids), Append(done, k))
            ELSE complete_loop(db, work, user_id, Tail(ids), done)

date_of(ds) == IF ds.k = "none" THEN None ELSE parse(ds)

\* for creation in result['creations']: an item that raises is skipped
RECURSIVE create_loop(_, _, _, _)
create_loop(work, user_id, items, clock) ==
    IF items = <<>> THEN work
    ELSE LET c == Head(items)
         IN IF c.due_date.k = "junk" \/ c.reminder_at.k = "junk" \/ ~c.has_title
            THEN create_loop(work, user_id, Tail(items), clock)
            ELSE create_loop(
                    Append(work, Task(work, user_id, c.title, date_of(c.due_date),
                                      date_of(c.reminder_at),
                                      IF c.has_priority THEN c.priority ELSE "medium",
                                      clock)),
                    user_id, Tail(items), clock)

\* self._schedule_reminder(new_task) without await: the coroutine object is
\* built and dropped, its body never runs
schedule_unawaited(js, task, clock) == js

\* for update_item in result['updates']
RECURSIVE update_loop(_, _, _, _)
update_loop(db, work, user_id, items) ==
    IF items = <<>> THEN [work |-> work, err |-> FALSE]
    ELSE IF Head(items).id = BadItem THEN [work |-> work, err |-> TRUE]
    ELSE LET k == query_first(db, Head(items).id, user_id)
         IN IF k # 0
            THEN update_loop(db, [work EXCEPT ![k] = set_fields(work[k], Head(items).fields)],
                             user_id, Tail(items))
            ELSE update_loop(db, work, user_id, Tail(items))

\* a session closed without commit that keeps what it had changed
rollback_keeps_changes(db, work) == [k \in Keys(db) |-> work[k]]

\* finally: db.close() on a session that did not commit: what the session
\* changed (work) is discarded, the table is as it was
rollback(db, work) == db

Failed(db, user_id) ==
    [tasks |-> db, out |-> Out("error", user_id, <<>>, <<>>, 0)]
Shown(db, user_id, completed) ==
    [tasks |-> db, out |-> show_tasks(db, user_id, completed)]

\* _process_text after the parser returned a result that is neither
\* conversational nor a clarification: the new table and the reply
apply_result(db, user_id, res, clock) ==
    LET comp == complete_loop(db, db, user_id, res.completions, <<>>)
        upd == update_loop(db, db, user_id, res.updates)
    IN IF res.completions # <<>> /\ comp.err THEN Failed(rollback(db, comp.work), user_id)
       ELSE IF res.completions # <<>> /\ comp.done # <<>>
       THEN Shown(commit(db, comp.work, clock), user_id, comp.done)
       ELSE IF res.creations # <<>>
       THEN Shown(create_loop(db, user_id, res.creations, clock), user_id, <<>>)
       ELSE IF res.updates # <<>>
       THEN IF upd.err \/ ~UniqueIds(upd.work) THEN Failed(rollback(db, upd.work), user_id)
            ELSE Shown(commit(db, upd.work, clock), user_id, <<>>)
       ELSE IF res.completions # <<>>
       THEN [tasks |-> db, out |-> Out("thinking", user_id, <<>>, <<>>, 0)]
       ELSE IF res.empty
       THEN [tasks |-> db, out |-> Out("help", user_id, <<>>, <<>>, 0)]
       ELSE Shown(db, user_id, <<>>)

\* rows created by the step get their reminder "scheduled" as the code does
RECURSIVE schedule_created(_, _, _, _)
schedule_created(js, db, from, clock) ==
    IF from > Len(db) THEN js
    ELSE schedule_created(
            IF db[from].reminder_at # None
            THEN schedule_unawaited(js, db[from], clock) ELSE js,
            db, from + 1, clock)

\* the messages users send
Texts == << <<"P","a","y"," ","J","o","h","n"," ","l","a","t","e","r">>,
            <<"t","a","k","e"," ","a"," ","b","r","e","a","k"," ","s","o","o","n">>,
            <<"c","a","l","l"," ","m","o","m"," ","t","o","d","a","y"," ","a","t"," ","5">>,
            <<"g","o"," ","f","o","r"," ","a"," ","w","a","l","k"," ","l","a","t","e","r">> >>

\* hashlib.sha256(original_message.encode()).hexdigest()[:16]: one
\* fingerprint per text, no two texts of Texts share one
message_hash(text) == CHOOSE h \in 1..Len(Texts) : Texts[h] = text

\* _ask_for_time_clarification
ask_for_time_clarification(user_id, text) ==
    /\ has_pc' = TRUE
    /\ pending_clarifications' =
          {e \in (IF has_pc THEN pending_clarifications ELSE {}) :
                e[1] # message_hash(text)} \cup {<<message_hash(text), text>>}
    /\ out' = Out("clarify", user_id, <<>>, <<>>, 0)
    /\ UNCHANGED <<tasks, jobs, firing, now>>

\* a _process_text that applies the actions of a conversational result
process_text_applies_conversational(user_id, res, ti) ==
    /\ IF res.empty /\ needs_clarification(Texts[ti])
       THEN ask_for_time_clarification(user_id, Texts[ti])
       ELSE LET r == apply_result(tasks, user_id, res, now)
            IN /\ Len(r.tasks) <= MaxTasks
               /\ tasks' = r.tasks
               /\ jobs' = schedule_created(jobs, r.tasks, Len(tasks) + 1, now)
               /\ out' = r.out
               /\ UNCHANGED <<firing, has_pc, pending_clarifications, now>>

\* handle_message / _process_text
process_text(user_id, res, ti) ==
    /\ IF res.intent \in {"general_query", "greeting"}
       THEN /\ out' = Out("reply", user_id, <<>>, <<>>, 0)
            /\ UNCHANGED <<tasks, jobs, firing, has_pc, pending_clarifications, now>>
       ELSE IF res.empty /\ needs_clarification(Texts[ti])
       THEN ask_for_time_clarification(user_id, Texts[ti])
       ELSE LET r == apply_result(tasks, user_id, res, now)
            IN /\ Len(r.tasks) <= MaxTasks
               /\ tasks' = r.tasks
               /\ jobs' = schedule_created(jobs, r.tasks, Len(tasks) + 1, now)
               /\ out' = r.out
               /\ UNCHANGED <<firing, has_pc, pending_clarifications, now>>

\* /tasks
tasks_command(user_id) ==
    /\ out' = show_tasks(tasks, user_id, <<>>)
    /\ UNCHANGED <<tasks, jobs, firing, has_pc, pending_clarifications, now>>

\* handle_time_selection, callback data time_<HH:MM>_<hash> or custom_<hash>
handle_time_selection(user_id, custom, slot, hash) ==
    /\ IF custom
       THEN /\ out' = Out("custom", user_id, <<>>, <<>>, 0)
            /\ UNCHANGED <<tasks, jobs, firing, has_pc, pending_clarifications, now>>
       ELSE IF ~has_pc
       THEN \* AttributeError: the handler dies, nothing is edited
            /\ out' = Out("exception", user_id, <<>>, <<>>, 0)
            /\ UNCHANGED <<tasks, jobs, firing, has_pc, pending_clarifications, now>>
       ELSE IF ~\E e \in pending_clarifications : e[1] = hash
       THEN /\ out' = Out("lost", user_id, <<>>, <<>>, 0)
            /\ UNCHANGED <<tasks, jobs, firing, has_pc, pending_clarifications, now>>
       ELSE LET e == CHOOSE e \in pending_clarifications : e[1] = hash
                task_data == create_task_with_time(e[2], TIME_SLOTS[slot], now)
                new_task == Task(tasks, user_id, task_data.title,
                                 parse(task_data.due_date), parse(task_data.reminder_at),
                                 task_data.priority, now)
            IN /\ Len(tasks) < MaxTasks
               /\ tasks' = Append(tasks, new_task)
               /\ jobs' = schedule_reminder(jobs, new_task, now)
               /\ pending_clarifications' = pending_clarifications \ {e}
               /\ out' = Out("created", user_id, <<>>, <<>>, Len(tasks) + 1)
               /\ UNCHANGED <<firing, has_pc, now>>

\* ------------------------------------------------------------ inputs
title_call == <<"C","a","l","l"," ","m","o","m">>
title_break == <<"T","a","k","e"," ","a"," ","b","r","e","a","k">>
title_water == <<"D","r","i","n","k"," ","w","a","t","e","r">>

Creation(title, due_date, reminder_at, priority) ==
    [has_title |-> TRUE, title |-> title, due_date |-> due_date,
     reminder_at |-> reminder_at, has_priority |-> TRUE, priority |-> priority]

Field(field, value) == [field |-> field, value |-> value]
Update(id, fields) == [id |-> id, fields |-> fields]

Res(intent, completions, creations, updates) ==
    [empty |-> FALSE, intent |-> intent, completions |-> completions,
     creations |-> creations, updates |-> updates]

\* "call mom at 10": the reminder is the first slot after the start
TenToday(clock) == [k |-> "dt", d |-> strftime(clock).d, hh |-> 10, mm |-> 0]
CallAtTen(clock) == Creation(title_call, TenToday(clock), TenToday(clock), "medium")

\* ------------------------------------------------------------ steps
Init ==
    /\ tasks = <<>>
    /\ jobs = {}
    /\ firing = {}
    /\ has_pc = FALSE
    /\ pending_clarifications = {}
    /\ now = StartTime
    /\ out = NoOut

HandleMessage(U, R) == \E u \in U, res \in R : process_text(u, res, 1)
HandleUnparsed(U, T) == \E u \in U, ti \in T : process_text(u, NoRes, ti)
TasksCommand(U) == \E u \in U : tasks_command(u)
TimeSelection(U, S, T) ==
    \E u \in U, slot \in S, ti \in T : handle_time_selection(u, FALSE, slot, ti)
CustomSelection(U, T) ==
    \E u \in U, ti \in T : handle_time_selection(u, TRUE, 0, ti)
ReminderSent == \E f \in firing : SendOk(f)
ReminderFailed == \E f \in firing : SendFail(f)

\* ------------------------------------------------------------ scheduler runs
\* one user asks for two reminders through the buttons and through the
\* parser, renumbers rows and writes reminder_sent
SchedResults(clock) ==
    { Res("", <<>>, <<CallAtTen(clock)>>, <<>>),
      Res("", <<>>, <<>>, <<Update(1, <<Field("reminder_sent", VBool(TRUE))>>)>>),
      Res("", <<>>, <<>>, <<Update(1, <<Field("reminder_sent", VBool(FALSE))>>)>>) }
    \cup { Res("", <<>>, <<>>, <<Update(i, <<Field("id", VInt(n))>>)>>) :
                i \in 1..MaxTasks, n \in 2..(MaxTasks + 1) }

NextSched ==
    \/ HandleMessage({1}, SchedResults(now))
    \/ HandleUnparsed({1}, {1})
    \/ TimeSelection({1}, 2..MaxSlot, {1})
    \/ Wakeup
    \/ ReminderSent
    \/ ReminderFailed
    \/ Tick

SpecSched == Init /\ [][NextSched]_vars

\* ------------------------------------------------------------ applier runs
\* two users create, complete and update tasks while the clock advances
\* and the sweeper runs
BreakAtTen(clock) == Creation(title_break, TenToday(clock), NoDate, "low")

ApplyResults(clock) ==
    { Res("", <<1>>, <<>>, <<>>),
      Res("", <<1, 2>>, <<>>, <<>>),
      Res("", <<>>, <<CallAtTen(clock)>>, <<>>),
      Res("", <<>>, <<BreakAtTen(clock)>>, <<>>),
      Res("", <<MaxTasks + 1>>, <<CallAtTen(clock)>>, <<>>),
      Res("", <<>>, <<BreakAtTen(clock)>>,
          <<Update(1, <<Field("priority", VStr("high"))>>)>>),
      Res("greeting", <<1>>, <<>>, <<>>),
      Res("list", <<>>, <<>>, <<>>) }
    \cup { Res("", <<>>, <<>>, <<Update(1, f)>>) :
             f \in { <<Field("status", VStr("pending"))>>,
                     <<Field("user_id", VInt(2))>> } }

\* the second user creates a task and names ids in completions
OtherResults(clock) ==
    { Res("", <<>>, <<CallAtTen(clock)>>, <<>>),
      Res("", <<1, 2>>, <<>>, <<>>) }

NextApply ==
    \/ HandleMessage({1}, ApplyResults(now))
    \/ HandleMessage({2}, OtherResults(now))
    \/ cleanup_expired_wellness_tasks
    \/ Tick

SpecApply == Init /\ [][NextApply]_vars

\* ------------------------------------------------------------ hand-off runs
\* tasks are created and nothing else happens to them: they stay pending,
\* every delivery succeeds, the process keeps running and the clock, the
\* scheduler and the pending deliveries make progress
NextHandoff ==
    \/ HandleMessage({1}, {Res("", <<>>, <<CallAtTen(now)>>, <<>>)})
    \/ HandleUnparsed({1}, {1, 2})
    \/ TimeSelection({1}, 1..MaxSlot, {1, 2})
    \/ Wakeup
    \/ ReminderSent
    \/ Tick

SpecHandoff ==
    /\ Init
    /\ [][NextHandoff]_vars
    /\ WF_vars(Tick)
    /\ WF_vars(Wakeup)
    /\ WF_vars(ReminderSent)

\* ------------------------------------------------------------ listing runs
ElevenToday(clock) == [k |-> "dt", d |-> strftime(clock).d, hh |-> 11, mm |-> 0]

ListCreations(clock) ==
    { Creation(title_call, TenToday(clock), NoDate, p) :
            p \in {"urgent", "high", "medium", "low", "someday"} }
    \cup { Creation(title_call, ElevenToday(clock), NoDate, "urgent"),
           Creation(title_call, NoDate, NoDate, "urgent"),
           Creation(title_call, NoDate, NoDate, "low") }

NextList ==
    \/ HandleMessage({1}, { Res("", <<>>, <<c>>, <<>>) : c \in ListCreations(now) })
    \/ HandleMessage({2}, { Res("", <<>>, <<Creation(title_call, TenToday(now), NoDate, "high")>>, <<>>) })
    \/ HandleMessage(Users, { Res("", <<i>>, <<>>, <<>>) : i \in 1..MaxTasks })
    \/ HandleMessage(Users, { Res("list", <<>>, <<>>, <<>>) })
    \/ TasksCommand(Users)

SpecList == Init /\ [][NextList]_vars

\* ------------------------------------------------------------ sweeper runs
\* a user creates wellness and other tasks, the clock advances and the
\* sweeper runs; nothing else completes a task
SweepCreations(clock) ==
    { Creation(title_break, TenToday(clock), NoDate, "medium"),
      Creation(title_break, ElevenToday(clock), NoDate, "low"),
      Creation(title_water, TenToday(clock), TenToday(clock), "low"),
      Creation(title_water, TenToday(clock), NoDate, "medium"),
      Creation(title_water, ElevenToday(clock), NoDate, "low"),
      Creation(title_water, NoDate, NoDate, "low"),
      Creation(title_call, TenToday(clock), NoDate, "low") }

NextSweep ==
    \/ HandleMessage({1}, { Res("", <<>>, <<c>>, <<>>) : c \in SweepCreations(now) })
    \/ cleanup_expired_wellness_tasks
    \/ Tick

SpecSweep == Init /\ [][NextSweep]_vars

\* ------------------------------------------------------------ restart runs
\* reminders are asked for through the buttons, the process restarts, the
\* clock advances and timers fire
NextRestart ==
    \/ HandleUnparsed({1}, {1})
    \/ TimeSelection({1}, 1..MaxSlot, {1})
    \/ Restart
    \/ Wakeup
    \/ ReminderSent
    \/ Tick

SpecRestart == Init /\ [][NextRestart]_vars

\* ------------------------------------------------------------ racing runs
\* reminders are asked for through the buttons; while timers mature and
\* deliveries are in flight the user completes tasks and the sweeper runs
NextRace ==
    \/ HandleUnparsed({1}, {2})
    \/ TimeSelection({1}, 2..MaxSlot, {2})
    \/ HandleMessage({1}, { Res("", <<i>>, <<>>, <<>>) : i \in 1..MaxTasks })
    \/ cleanup_expired_wellness_tasks
    \/ Wakeup
    \/ ReminderSent
    \/ ReminderFailed
    \/ Tick

SpecRace == Init /\ [][NextRace]_vars

\* ------------------------------------------------------------ batch runs
\* two users create tasks; the first sends batches naming ids that exist,
\* ids of no task, ids of the other user's tasks, items without an id and
\* an id rewrite that collides with an existing row
HighPriority == <<Field("priority", VStr("high"))>>

SkipResults ==
    { Res("", <<1, 2>>, <<>>, <<>>),
      Res("", <<MaxTasks + 1, 1>>, <<>>, <<>>),
      Res("", <<>>, <<>>, <<Update(MaxTasks + 1, HighPriority), Update(1, HighPriority)>>),
      Res("", <<>>, <<>>, <<Update(2, HighPriority), Update(1, HighPriority)>>) }

FaultResults ==
    { Res("", <<1, BadItem>>, <<>>, <<>>),
      Res("", <<>>, <<>>, <<Update(1, HighPriority), Update(BadItem, HighPriority)>>),
      Res("", <<>>, <<>>, <<Update(1, <<Field("priority", VStr("high")),
                                        Field("id", VInt(2))>>)>>) }

BatchResults(clock) ==
    { Res("", <<>>, <<CallAtTen(clock)>>, <<>>) } \cup SkipResults \cup FaultResults

NextBatch ==
    \/ HandleMessage({1}, BatchResults(now))
    \/ HandleMessage({2}, { Res("", <<>>, <<CallAtTen(now)>>, <<>>) })
    \/ Tick

SpecBatch == Init /\ [][NextBatch]_vars

\* ------------------------------------------------------------ field runs
\* the parser hands over creations whose dates do not parse, creations
\* without a priority or with a priority outside the four names, and
\* updates that carry such values
UnknownPriority == <<Field("priority", VStr("someday"))>>

JunkCreations(clock) ==
    { Res("", <<>>, <<Creation(title_call, JunkDate, NoDate, "medium")>>, <<>>),
      Res("", <<>>, <<Creation(title_call, TenToday(clock), JunkDate, "medium")>>, <<>>) }

PriorityCreations ==
    { Res("", <<>>, <<[Creation(title_break, NoDate, NoDate, "") EXCEPT
                            !.has_priority = FALSE]>>, <<>>),
      Res("", <<>>, <<Creation(title_water, NoDate, NoDate, "someday")>>, <<>>) }

JunkUpdates ==
    { Res("", <<>>, <<>>, <<Update(i, <<Field(f, VDate(JunkDate)),
                                        Field("priority", VStr("urgent"))>>)>>) :
        i \in 1..MaxTasks, f \in {"due_date", "reminder_at"} }
    \cup
    { Res("", <<>>, <<>>, <<Update(i, <<Field("priority", VStr("urgent")),
                                        Field(f, VDate(JunkDate))>>)>>) :
        i \in 1..MaxTasks, f \in {"due_date", "reminder_at"} }

FieldResults(clock) ==
    { Res("", <<>>, <<CallAtTen(clock)>>, <<>>) }
    \cup JunkCreations(clock) \cup PriorityCreations \cup JunkUpdates
    \cup { Res("", <<>>, <<>>, <<Update(i, UnknownPriority)>>) : i \in 1..MaxTasks }

NextFields ==
    \/ HandleMessage({1}, FieldResults(now))
    \/ TasksCommand({1})
    \/ Tick

SpecFields == Init /\ [][NextFields]_vars

\* ------------------------------------------------------------ re-arming runs
\* reminders are asked for through the buttons; the user then moves a
\* reminder to eleven o'clock or removes it while timers are armed
RearmResults(clock) ==
    { Res("", <<>>, <<>>, <<Update(i, <<Field("reminder_at", v)>>)>>) :
        i \in 1..MaxTasks, v \in {VDate(ElevenToday(clock)), VNull} }

NextRearm ==
    \/ HandleUnparsed({1}, {2})
    \/ TimeSelection({1}, 2..MaxSlot, {2})
    \/ HandleMessage({1}, RearmResults(now))
    \/ Wakeup
    \/ ReminderSent
    \/ Tick

SpecRearm == Init /\ [][NextRearm]_vars

\* ------------------------------------------------------------ scheduling runs
\* _schedule_reminder as a function of the task it is given: it is awaited
\* for a stored task whose reminder_at is v (none, ten or eleven o'clock),
\* again and again with the same or another value, while timers mature
ReconcileValues(clock) == {None, parse(TenToday(clock)), parse(ElevenToday(clock))}

ScheduleReminderCall(k, v) ==
    /\ k \in Keys(tasks)
    /\ tasks' = [tasks EXCEPT ![k].reminder_at = v]
    /\ jobs' = schedule_reminder(jobs, tasks'[k], now)
    /\ out' = Out(IF jobs' = {j \in jobs : j.id # tasks[k].id} \cup {Job(tasks'[k])}
                  THEN "scheduled" ELSE "not scheduled",
                  tasks[k].user_id, <<>>, <<>>, k)
    /\ UNCHANGED <<firing, has_pc, pending_clarifications, now>>

ScheduleReminderAgain ==
    \E k \in 1..MaxTasks, v \in ReconcileValues(now) : ScheduleReminderCall(k, v)

NextReconcile ==
    \/ HandleUnparsed({1}, {2})
    \/ TimeSelection({1}, {2}, {2})
    \/ ScheduleReminderAgain
    \/ Wakeup
    \/ ReminderSent
    \/ Tick

SpecReconcile == Init /\ [][NextReconcile]_vars

\* ------------------------------------------------------------ clarification runs
\* vague requests about a payment, a break and a walk are resolved through
\* the buttons
VagueTexts == {ti \in 1..Len(Texts) : needs_clarification(Texts[ti])}

NextClarify ==
    \/ HandleUnparsed({1}, VagueTexts)
    \/ TimeSelection({1}, 1..MaxSlot, VagueTexts)

SpecClarify == Init /\ [][NextClarify]_vars

\* ------------------------------------------------------------ delivery runs
\* breaks are asked for ten o'clock through the buttons; their timers
\* mature, and while a delivery is in flight the user completes the task
\* or the sweeper runs
NextFire ==
    \/ HandleUnparsed({1}, {2})
    \/ TimeSelection({1}, {2}, {2})
    \/ HandleMessage({1}, { Res("", <<i>>, <<>>, <<>>) : i \in 1..MaxTasks })
    \/ cleanup_expired_wellness_tasks
    \/ Wakeup
    \/ ReminderSent
    \/ ReminderFailed
    \/ Tick

SpecFire == Init /\ [][NextFire]_vars

\* ------------------------------------------------------------ frame runs
\* tasks with timers exist; the user greets, asks a question or asks for
\* the list, and the parser's result for a greeting or a question also
\* carries actions; texts with and without a vague time get no result
FrameResults(clock) ==
    { Res("greeting", <<1>>, <<>>, <<>>),
      Res("general_query", <<>>, <<CallAtTen(clock)>>, <<>>),
      Res("greeting", <<>>, <<>>, <<Update(1, HighPriority)>>),
      Res("list", <<>>, <<>>, <<>>) }

NextFrame ==
    \/ HandleMessage({1}, FrameResults(now))
    \/ HandleUnparsed({1}, {2, 3})
    \/ TimeSelection({1}, {2}, {2})
    \/ TasksCommand({1})
    \/ Wakeup
    \/ ReminderSent
    \/ Tick

SpecFrame == Init /\ [][NextFrame]_vars

\* ------------------------------------------------------------ claims
Elems(seq) == {seq[i] : i \in 1..Len(seq)}
Conversational(res) == res.intent \in {"general_query", "greeting"}

\* a job of the scheduler is armed for the row
HasTimer(t) == \E j \in jobs : j.id = t.id /\ j.user_id = t.user_id
TimerWanted(t) ==
    /\ t.status = "pending"
    /\ t.reminder_at # None
    /\ t.reminder_at > now
    /\ ~t.reminder_sent

\* C1: in every reachable state a task has a live reminder timer if and
\* only if it is pending, has a reminder_at later than now and its
\* reminder was not sent.
C1_TimerIffWanted ==
    \A k \in Keys(tasks) : HasTimer(tasks[k]) <=> TimerWanted(tasks[k])

\* C2: the reminder of a task is delivered at most once, whatever the
\* interleaving of creations, updates and timer firings.
C2_DeliveredAtMostOnce ==
    \A k \in Keys(tasks) : tasks[k].sends <= 1

\* C3: every task a step creates with reminder_at in the future is handed
\* to the scheduler: after the step a job for the task's id is armed at the
\* task's reminder_at.
C3_CreatedIsHandedOver ==
    [][\A k \in Keys(tasks') \ Keys(tasks) :
          tasks'[k].reminder_at # None /\ tasks'[k].reminder_at > now
              => \E j \in jobs' : /\ j.id = tasks'[k].id
                                  /\ j.run_date = tasks'[k].reminder_at]_vars

\* C3, its consequence: a task with reminder_at in the future (and within
\* the time the clock covers) that stays pending, with deliveries
\* succeeding and no restart, eventually has its reminder delivered and
\* reminder_sent true.
C3_FutureReminderDelivered ==
    \A k \in 1..MaxTasks :
        (/\ k \in Keys(tasks)
         /\ tasks[k].reminder_at # None
         /\ tasks[k].reminder_at > now
         /\ tasks[k].reminder_at <= MaxTime)
        ~> (k \in Keys(tasks) /\ tasks[k].reminder_sent /\ tasks[k].sends >= 1)

\* C4: once a task is completed no later step gives it another status.
C4_StatusMonotonic ==
    [][\A k \in Keys(tasks) :
          tasks[k].status = "completed" => tasks'[k].status = "completed"]_vars

\* C5: no step changes reminder_sent of a task from true to false.
C5_ReminderSentNeverUnset ==
    [][\A k \in Keys(tasks) :
          tasks[k].reminder_sent => tasks'[k].reminder_sent]_vars

\* C6: reminder_sent of a task becomes true only in a step of the fire
\* path that delivered the reminder of that task, never in a user action.
C6_SentOnlyByFirePath ==
    [][\A k \in Keys(tasks) :
          ~tasks[k].reminder_sent /\ tasks'[k].reminder_sent
              => out'.kind = "reminder" /\ out'.task = k]_vars

\* C7: a completion request of its owner for a task that is already
\* completed is answered with the 'already completed' signal, confirms no
\* completion and leaves updated_at of the task alone.
C7_AlreadyCompletedIsDistinct ==
    [][\A u \in Users : \A res \in ApplyResults(now) : \A k \in Keys(tasks) :
          /\ process_text(u, res, 1)
          /\ ~Conversational(res)
          /\ tasks[k].status = "completed"
          /\ tasks[k].user_id = u
          /\ tasks[k].id \in Elems(res.completions)
          => /\ out'.kind = "already_completed"
             /\ k \notin Elems(out'.completed)
             /\ tasks'[k].updated_at = tasks[k].updated_at]_vars

\* the order the listing must have: due time ascending, no due time last,
\* then urgent < high < medium < low < anything else
ListRank(p) ==
    IF p = "urgent" THEN 0 ELSE IF p = "high" THEN 1
    ELSE IF p = "medium" THEN 2 ELSE IF p = "low" THEN 3 ELSE 4
ListBefore(a, b) ==
    \/ a.due_date # None /\ b.due_date = None
    \/ a.due_date # None /\ b.due_date # None /\ a.due_date < b.due_date
    \/ a.due_date = b.due_date /\ ListRank(a.priority) < ListRank(b.priority)
ListTie(a, b) ==
    a.due_date = b.due_date /\ ListRank(a.priority) = ListRank(b.priority)

\* L holds the rows of S once each, in list order, rows that tie keeping
\* the order they have in the input sequence
SortedStably(db, L, input) ==
    /\ Elems(L) = Elems(input)
    /\ Len(L) = Len(input)
    /\ \A i, j \in 1..Len(L) : i < j =>
          \/ ListBefore(db[L[i]], db[L[j]])
          \/ /\ ListTie(db[L[i]], db[L[j]])
             /\ \E x, y \in 1..Len(input) :
                    x < y /\ input[x] = L[i] /\ input[y] = L[j]

\* every ordering of the rows of S
Orderings(S) ==
    {q \in [1..Cardinality(S) -> S] : \A i, j \in 1..Cardinality(S) : i # j => q[i] # q[j]}

PendingOf(u) == {k \in Keys(tasks) : tasks[k].user_id = u /\ tasks[k].status = "pending"}

\* C8: the pending-task listing of a user holds exactly the pending tasks
\* of that user, by due time ascending with no due time last, ties broken
\* by priority rank with unknown priorities after low; whatever order the
\* store returns the rows in, the listing is the stable sort of that order.
C8_ListingSorted ==
    /\ out.kind = "tasks" =>
          SortedStably(tasks, out.listing, ByRowid(tasks, PendingOf(out.user)))
    /\ \A u \in Users : \A q \in Orderings(PendingOf(u)) :
          SortedStably(tasks, sort(tasks, <<>>, q), q)

\* the listing shows a row in front of a row that was stored before it and
\* has the same due time: the priority rank decided
C8_Witness ==
    /\ out.kind = "tasks"
    /\ \E i, j \in 1..Len(out.listing) :
          /\ i < j
          /\ tasks[out.listing[i]].id > tasks[out.listing[j]].id
          /\ tasks[out.listing[i]].due_date = tasks[out.listing[j]].due_date

UserStep(u) == out'.user = u /\ out'.kind \notin {"none", "reminder"}
OwnedBy(db, u) == {k \in Keys(db) : db[k].user_id = u}

\* C9: a step handling an action of user X leaves every task owned by
\* another user unchanged and leaves the set of tasks each other user owns
\* unchanged.
C9_UserIsolation ==
    [][\A x \in Users : UserStep(x) =>
          /\ \A k \in Keys(tasks) : tasks[k].user_id # x => tasks'[k] = tasks[k]
          /\ \A y \in Users \ {x} : OwnedBy(tasks', y) = OwnedBy(tasks, y)]_vars

\* a row as it was, but for its status and updated_at
CompletedOnly(old, new) ==
    [new EXCEPT !.status = old.status, !.updated_at = old.updated_at] = old

\* C10: of one structured action only the first non-empty category takes
\* effect: with completions present no task is created or updated (whether
\* or not a completion id matched a task), with creations present no task
\* is updated.
C10_FirstCategoryWins ==
    [][\A u \in Users : \A res \in ApplyResults(now) :
          process_text(u, res, 1) /\ ~Conversational(res) =>
             /\ res.completions # <<>> =>
                   /\ Len(tasks') = Len(tasks)
                   /\ \A k \in Keys(tasks) : CompletedOnly(tasks[k], tasks'[k])
             /\ res.completions = <<>> /\ res.creations # <<>> =>
                   \A k \in Keys(tasks) : tasks'[k] = tasks[k]]_vars

\* the rule of the sweep as the specification words it
SweepKeywords ==
    { <<"b","r","e","a","k">>, <<"w","a","t","e","r">>,
      <<"e","x","e","r","c","i","s","e">>, <<"w","a","l","k">>,
      <<"s","t","r","e","t","c","h">>, <<"r","e","s","t">>,
      <<"b","r","e","a","t","h","e">>, <<"d","r","i","n","k">>,
      <<"h","y","d","r","a","t","e">> }
HasKeyword(t) == \E kw \in SweepKeywords : Contains(lower(t.title), kw)
DuePassed(t, clock) == t.due_date # None /\ t.due_date < clock
SweepShould(t, clock) ==
    /\ t.status = "pending"
    /\ DuePassed(t, clock)
    /\ HasKeyword(t)
    /\ \/ Contains(lower(t.title), <<"b","r","e","a","k">>)
       \/ clock - t.due_date > 15 /\ t.priority = "low"

\* C11: a sweep run now completes a pending task if and only if its due
\* time has passed, its title contains a wellness keyword, and the title
\* contains 'break' or the task is overdue by more than 15 minutes with
\* priority low.
C11_SweepCompletesIff ==
    \A k \in Keys(tasks) :
        (tasks[k].status = "pending" /\ sweep_tasks(tasks, now)[k].status = "completed")
            <=> SweepShould(tasks[k], now)

\* the sweeper has run and has nothing left to do: it completed an overdue
\* low 'Drink water' and left a medium 'Drink water', overdue by more than
\* 15 minutes, or a task overdue by less, pending
C11_Witness ==
    /\ sweep_tasks(tasks, now) = tasks
    /\ \E k \in Keys(tasks) :
          /\ tasks[k].title = title_water
          /\ tasks[k].priority = "low"
          /\ tasks[k].status = "completed"
    /\ \E k \in Keys(tasks) :
          /\ tasks[k].title = title_water
          /\ tasks[k].status = "pending"
          /\ DuePassed(tasks[k], now)

\* what a sweep step may do to a row: nothing, or complete it, and then
\* only if the row was pending, overdue and a wellness task
SweepTouches(old, new, bookkeeping) ==
    \/ new = old
    \/ /\ old.status = "pending"
       /\ new.status = "completed"
       /\ HasKeyword(old)
       /\ DuePassed(old, now)
       /\ IF bookkeeping
          THEN [new EXCEPT !.status = old.status, !.updated_at = old.updated_at] = old
          ELSE [new EXCEPT !.status = old.status] = old

\* C12 as stated: a sweep never completes a task without a wellness
\* keyword, never touches a task whose due time is absent or not passed,
\* and changes no field other than status of the tasks it completes.
C12_SweepOnlyStatus ==
    [][cleanup_expired_wellness_tasks =>
          /\ Len(tasks') = Len(tasks)
          /\ \A k \in Keys(tasks) : SweepTouches(tasks[k], tasks'[k], FALSE)]_vars

\* C12, amended: as C12, the fields a sweep changes of a task it completes
\* being status and the bookkeeping field updated_at.
C12_SweepOnlyStatusAndUpdatedAt ==
    [][cleanup_expired_wellness_tasks =>
          /\ Len(tasks') = Len(tasks)
          /\ \A k \in Keys(tasks) : SweepTouches(tasks[k], tasks'[k], TRUE)]_vars

\* the sweeper completed a task that has a reminder time, at a later
\* instant than the one the task was created at
C12_Witness ==
    \E k \in Keys(tasks) :
        /\ tasks[k].status = "completed"
        /\ tasks[k].reminder_at # None
        /\ ~tasks[k].reminder_sent
        /\ tasks[k].updated_at > StartTime

\* C13: after a restart a timer is armed for every stored task that is
\* pending, has reminder_at in the future and reminder_sent false.
C13_RestartRearms ==
    [][Restart =>
          \A k \in Keys(tasks') :
              (/\ tasks'[k].status = "pending"
               /\ tasks'[k].reminder_at # None
               /\ tasks'[k].reminder_at > now'
               /\ ~tasks'[k].reminder_sent)
              => \E j \in jobs' : j.id = tasks'[k].id]_vars

\* C14: a timer that matures for a task that is not pending, or whose
\* reminder_sent is already true, starts no notification: a fire path goes
\* on to send only for a row that is pending with reminder_sent false.
C14_IneligibleNotSent ==
    [][\A f \in firing' \ firing :
          /\ tasks[f.key].status = "pending"
          /\ ~tasks[f.key].reminder_sent]_vars

\* C15: a failed delivery changes no task (reminder_sent stays as it was,
\* false), is not attempted again by that fire path, and leaves no timer
\* armed for the task id the timer was for.
C15_FailedDeliveryStops ==
    [][\A f \in firing :
          SendFail(f) =>
             /\ tasks' = tasks
             /\ firing' = firing \ {f}
             /\ ~\E j \in jobs' : j.id = f.id]_vars

\* the reminder of the first task, asked for through the buttons, matured
\* and its delivery failed: nothing was sent, nothing is armed or in flight
C15_Witness ==
    /\ Len(tasks) >= 1
    /\ tasks[1].id = 1
    /\ tasks[1].title # title_call
    /\ tasks[1].status = "pending"
    /\ ~tasks[1].reminder_sent
    /\ tasks[1].sends = 0
    /\ tasks[1].updated_at = StartTime
    /\ tasks[1].reminder_at > StartTime
    /\ tasks[1].reminder_at <= now
    /\ ~\E j \in jobs : j.id = 1
    /\ ~\E f \in firing : f.key = 1 \/ f.id = 1

\* a row but for the delivery counter
Columns(t) == [t EXCEPT !.sends = 0]

\* C16: mutations of one task are mutually exclusive: while a fire path is
\* between its read of a task and its commit, no other flow (user action,
\* sweeper, another fire path) commits a change of that task.
C16_MutualExclusion ==
    [][\A f \in firing \cap firing' :
          Columns(tasks'[f.key]) = Columns(tasks[f.key])]_vars

\* an item of the batch the applier runs cannot be read
Faulty(res) ==
    \/ BadItem \in Elems(res.completions)
    \/ /\ res.completions = <<>>
       /\ res.creations = <<>>
       /\ \E i \in 1..Len(res.updates) : res.updates[i].id = BadItem

\* C17: one invocation of the applier is all or nothing: a batch that
\* fails partway is answered with the generic failure reply, and a step
\* that gives that reply leaves every task and every timer as it was.
C17_AllOrNothing ==
    [][\A u \in Users : \A res \in BatchResults(now) :
          process_text(u, res, 1) =>
             /\ Faulty(res) => out'.kind = "error"
             /\ out'.kind = "error" => tasks' = tasks /\ jobs' = jobs]_vars

\* a batch of the first user that names task 1 first has failed: task 1 is
\* still pending with the priority it was created with
C17_Witness ==
    /\ out.kind = "error"
    /\ out.user = 1
    /\ Len(tasks) >= 1
    /\ tasks[1].user_id = 1
    /\ tasks[1].id = 1
    /\ tasks[1].status = "pending"
    /\ tasks[1].priority = "medium"

\* the row of user u that has this id, 0 if there is none
OwnRow(db, u, id) ==
    IF \E k \in Keys(db) : db[k].id = id /\ db[k].user_id = u
    THEN CHOOSE k \in Keys(db) : db[k].id = id /\ db[k].user_id = u
    ELSE 0

\* C18: a completion batch that names an already completed task of the
\* user is aborted: 'already completed' is reported, no task of the batch
\* is completed and nothing is committed.
C18_BatchAbortsOnCompleted ==
    [][\A u \in Users : \A res \in ApplyResults(now) :
          (/\ process_text(u, res, 1)
           /\ ~Conversational(res)
           /\ \E i \in 1..Len(res.completions) :
                  /\ OwnRow(tasks, u, res.completions[i]) # 0
                  /\ tasks[OwnRow(tasks, u, res.completions[i])].status = "completed")
          => /\ tasks' = tasks
             /\ out'.kind = "already_completed"]_vars

\* C19: an item without an id in a completion or update batch is skipped
\* by itself: the batch is not answered with a failure and every
\* well-formed item of it that names a task of the user is applied.
C19_MalformedItemSkipped ==
    [][\A u \in Users : \A res \in FaultResults :
          (process_text(u, res, 1) /\ Faulty(res)) =>
             /\ out'.kind # "error"
             /\ \A i \in 1..Len(res.completions) :
                   res.completions[i] # BadItem
                   /\ OwnRow(tasks, u, res.completions[i]) # 0
                   => tasks'[OwnRow(tasks, u, res.completions[i])].status = "completed"
             /\ \A i \in 1..Len(res.updates) :
                   res.updates[i].id # BadItem
                   /\ OwnRow(tasks, u, res.updates[i].id) # 0
                   => tasks'[OwnRow(tasks, u, res.updates[i].id)].priority = "high"]_vars

\* C20: a completion or update item whose id names no task, or a task of
\* another user, is skipped silently: no failure reply, no row that is not
\* the user's changes, and the items of the batch that name tasks of the
\* user are applied.
C20_UnknownIdSkipped ==
    [][\A u \in Users : \A res \in SkipResults :
          process_text(u, res, 1) =>
             /\ out'.kind # "error"
             /\ Len(tasks') = Len(tasks)
             /\ \A k \in Keys(tasks) : tasks[k].user_id # u => tasks'[k] = tasks[k]
             /\ \A k \in Keys(tasks) :
                   tasks[k].user_id = u =>
                      /\ tasks[k].id \in Elems(res.completions)
                            => tasks'[k].status = "completed"
                      /\ (\E i \in 1..Len(res.updates) : res.updates[i].id = tasks[k].id)
                            => tasks'[k].priority = "high"
                      /\ (tasks[k].id \notin Elems(res.completions)
                          /\ ~\E i \in 1..Len(res.updates) : res.updates[i].id = tasks[k].id)
                            => tasks'[k] = tasks[k]]_vars

\* the first user sent a batch naming id 2, a task of the second user, and
\* id 1, a task of their own: task 1 was changed, task 2 was not
C20_Witness ==
    /\ Len(tasks) >= 2
    /\ out.kind = "tasks"
    /\ out.user = 1
    /\ tasks[1].user_id = 1 /\ tasks[1].id = 1
    /\ tasks[2].user_id = 2 /\ tasks[2].id = 2
    /\ tasks[1].status = "completed" \/ tasks[1].priority = "high"
    /\ tasks[2].status = "pending" /\ tasks[2].priority = "medium"

\* ------------------------------------------------------------------ C21
\* C21: a creation item that has a title and a due date or reminder date
\* that cannot be parsed still stores one new task, with that date absent.
C21_JunkDateStillCreates ==
    [][\A u \in Users : \A res \in JunkCreations(now) :
          process_text(u, res, 1)
          => /\ Len(tasks') = Len(tasks) + 1
             /\ tasks'[Len(tasks')].title = res.creations[1].title
             /\ tasks'[Len(tasks')].reminder_at = None]_vars

\* ------------------------------------------------------------------ C22
\* C22: the priority of every stored task is one of urgent, high, medium,
\* low.
PriorityNames == {"urgent", "high", "medium", "low"}

C22_PriorityInSet ==
    \A k \in Keys(tasks) : tasks[k].priority \in PriorityNames

\* ------------------------------------------------------------------ C29
\* C29: an update whose fields carry a date that cannot be parsed and a
\* priority leaves the date field (and every other column) of the task as
\* it was and applies the priority, whichever of the two comes first.
C29_JunkDateFieldSkipped ==
    [][\A u \in Users : \A res \in JunkUpdates :
          process_text(u, res, 1) /\ OwnRow(tasks, u, res.updates[1].id) # 0
          => LET k == OwnRow(tasks, u, res.updates[1].id)
             IN /\ Len(tasks') = Len(tasks)
                /\ tasks'[k] = [tasks[k] EXCEPT
                        !.priority = "urgent",
                        !.updated_at = IF tasks[k].priority # "urgent"
                                       THEN now ELSE @]
                /\ \A j \in Keys(tasks) \ {k} : tasks'[j] = tasks[j]]_vars

\* a task that has both dates took the update: the priority is applied,
\* the dates are still there
C29_Witness ==
    /\ out.kind = "tasks"
    /\ \E k \in Keys(tasks) :
          /\ tasks[k].priority = "urgent"
          /\ tasks[k].due_date = parse(TenToday(tasks[k].updated_at))
          /\ tasks[k].reminder_at = tasks[k].due_date

\* ------------------------------------------------------------------ C30
\* C30: no step changes the id or the user_id of a stored task.
C30_IdentityImmutable ==
    [][\A k \in Keys(tasks) :
          /\ k \in Keys(tasks')
          /\ tasks'[k].id = tasks[k].id
          /\ tasks'[k].user_id = tasks[k].user_id]_vars

\* ------------------------------------------------------------------ C23
\* C23: every armed timer fires at the reminder_at its task has in the
\* table now.
C23_TimerMatchesReminderAt ==
    \A j \in jobs :
        \E k \in Keys(tasks) :
            tasks[k].id = j.id /\ tasks[k].reminder_at = j.run_date

\* ------------------------------------------------------------------ C25
\* the timers armed for a task id
TimersOf(js, id) == {j \in js : j.id = id}

\* the last step was _schedule_reminder for row k
Scheduled(k) == out.kind \in {"scheduled", "not scheduled"} /\ out.task = k

\* C25: no task id ever has two timers; when _schedule_reminder runs for a
\* pending, unsent task with a reminder_at in the future, whatever timer an
\* earlier call armed for the task, exactly one timer is armed for it
\* afterwards and it fires at the reminder_at of this call; a call repeated
\* for a task that did not change leaves the timers as they were.
C25_OneTimerLastWins ==
    [][/\ \A j1, j2 \in jobs' : j1.id = j2.id => j1 = j2
       /\ \A k \in Keys(tasks) : \A v \in ReconcileValues(now) :
             ScheduleReminderCall(k, v)
             => /\ TimerWanted(tasks'[k])
                   => TimersOf(jobs', tasks[k].id) = {Job(tasks'[k])}
                /\ Scheduled(k) /\ v = tasks[k].reminder_at => jobs' = jobs]_vars

\* a task that was armed for ten o'clock when it was created has been
\* scheduled again for eleven: its one timer fires at eleven
C25_Witness ==
    /\ out.kind = "scheduled"
    /\ out.task \in Keys(tasks)
    /\ tasks[out.task].due_date = parse(TenToday(now))
    /\ tasks[out.task].reminder_at = parse(ElevenToday(now))
    /\ TimersOf(jobs, tasks[out.task].id) = {Job(tasks[out.task])}

\* ------------------------------------------------------------------ C24
\* C24: when the fire path that read a pending task with reminder_sent
\* false gets its send_message back, that is one more delivery, to the
\* owner of the task, and reminder_sent is true afterwards; reminder_sent
\* never becomes true in a step that does not deliver.
C24_OneSendThenFlag ==
    [][/\ \A f \in firing :
             SendOk(f) /\ ~f.sent
             => /\ tasks'[f.key].sends = tasks[f.key].sends + 1
                /\ tasks'[f.key].reminder_sent
                /\ out'.kind = "reminder" /\ out'.user = tasks[f.key].user_id
                /\ f \notin firing'
       /\ \A k \in Keys(tasks) :
             ~tasks[k].reminder_sent /\ tasks'[k].reminder_sent
             => tasks'[k].sends = tasks[k].sends + 1]_vars

\* a reminder was just delivered for a task that is still pending
C24_Witness ==
    /\ out.kind = "reminder"
    /\ tasks[out.task].status = "pending"
    /\ tasks[out.task].reminder_sent
    /\ tasks[out.task].sends = 1

\* ------------------------------------------------------------------ C26
\* C26: when the task was completed (by its user or by the sweeper) after
\* the fire path had read it and before the fire path commits, the commit
\* leaves the task completed and records the reminder as sent: both writes
\* are in the row.
C26_CompletionNotLost ==
    [][\A f \in firing :
          SendOk(f) /\ tasks[f.key].status = "completed"
          => /\ tasks'[f.key].status = "completed"
             /\ tasks'[f.key].reminder_sent
             /\ \A k \in Keys(tasks) : tasks'[k].status = tasks[k].status]_vars

\* the fire path just committed for a task that was completed meanwhile
C26_Witness ==
    /\ out.kind = "reminder"
    /\ tasks[out.task].status = "completed"
    /\ tasks[out.task].reminder_sent
    /\ tasks[out.task].sends = 1

\* ------------------------------------------------------------------ C27
\* an entry is waiting under the fingerprint
Waiting(h) == has_pc /\ \E e \in pending_clarifications : e[1] = h

\* a task made from the text of the fingerprint is stored: a pick has
\* consumed the entry before
Consumed(h) ==
    \E k \in Keys(tasks) :
        tasks[k].title = create_task_with_time(Texts[h], TIME_SLOTS[1], now).title

\* C27: a pick for a fingerprint that is waiting creates exactly one task
\* and deletes the entry; a pick for a fingerprint that was consumed and is
\* not waiting creates no task and reports that the original request is no
\* longer known.
C27_PickConsumes ==
    [][\A u \in Users : \A slot \in 1..MaxSlot : \A h \in 1..Len(Texts) :
          handle_time_selection(u, FALSE, slot, h)
          => IF Waiting(h)
             THEN /\ Len(tasks') = Len(tasks) + 1
                  /\ ~\E e \in pending_clarifications' : e[1] = h
             ELSE Consumed(h) => tasks' = tasks /\ out'.kind = "lost"]_vars

\* ------------------------------------------------------------------ C28
\* a payment-like action
PaymentLike(action) ==
    lower(action) \in {<<"p","a","y">>, <<"t","r","a","n","s","f","e","r">>,
                       <<"s","e","n","d"," ","m","o","n","e","y">>}

\* the text contains a keyword of the wellness set
HasWellnessKeyword(text) == \E kw \in SweepKeywords : Contains(lower(text), kw)

\* C28: the task made from a pick has due_date and reminder_at at the
\* picked hour and minute of the current day, and priority high when the
\* extracted action is payment-like, else low when the text contains a
\* wellness keyword, else medium.
C28_ResolvedFields ==
    [][\A u \in Users : \A slot \in 1..MaxSlot : \A h \in 1..Len(Texts) :
          handle_time_selection(u, FALSE, slot, h) /\ Waiting(h)
          => LET t == tasks'[Len(tasks')]
                 at == strftime(now).d * DayMinutes
                         + TIME_SLOTS[slot].hh * HourMinutes + TIME_SLOTS[slot].mm
             IN /\ t.due_date = at
                /\ t.reminder_at = at
                /\ t.priority =
                      IF PaymentLike(extract_task_action_and_object(Texts[h])[1])
                      THEN "high"
                      ELSE IF HasWellnessKeyword(Texts[h]) THEN "low"
                      ELSE "medium"]_vars

\* ------------------------------------------------------------------ C31
\* C31: a message whose parser result is a list query, has a conversational
\* intent (with or without completions, creations or updates in it) or is
\* empty, and the /tasks command, leave every task and every timer as they
\* were.
C31_ReadOnlyRequests ==
    [][/\ \A u \in Users : \A res \in FrameResults(now) \cup {NoRes} :
          \A ti \in 1..Len(Texts) :
             process_text(u, res, ti)
             => tasks' = tasks /\ jobs' = jobs /\ firing' = firing
       /\ \A u \in Users :
             tasks_command(u) => tasks' = tasks /\ jobs' = jobs /\ firing' = firing]_vars

\* a greeting or question that carried actions was answered while the
\* first task was pending with its timer armed and room was left for more
C31_Witness ==
    /\ out.kind = "reply"
    /\ Len(tasks) = 1
    /\ tasks[1].status = "pending"
    /\ tasks[1].priority = "low"
    /\ HasTimer(tasks[1])

\* ------------------------------------------------------------------ C32
\* the text names a time vaguely: one of the vague phrases, or "today"
\* with no "at" and no digit after it
VaguePhrases ==
    { <<"l","a","t","e","r">>, <<"s","o","o","n">>,
      <<"i","n"," ","a"," ","b","i","t">>, <<"i","n"," ","a"," ","w","h","i","l","e">>,
      <<"t","h","i","s"," ","a","f","t","e","r","n","o","o","n">>,
      <<"t","h","i","s"," ","e","v","e","n","i","n","g">> }

HasVagueTime(text) ==
    LET l == lower(text)
        today == <<"t","o","d","a","y">>
    IN \/ \E w \in VaguePhrases : Contains(l, w)
       \/ /\ Contains(l, today)
          /\ ~Contains(l, today \o <<" ","a","t">>)
          /\ ~\E d \in DigitChars : Contains(l, today \o <<" ", d>>)

\* the entries waiting under the fingerprint of the text
EntriesOf(pc, text) == {e \in pc : e[1] = message_hash(text)}

\* C32: a message is answered with the time buttons exactly when the
\* parser's result is empty and the text names a time vaguely; that step
\* leaves exactly one pending entry under the fingerprint of the text,
\* holding the text, keeps the entries of other texts, and changes no task,
\* no timer and no delivery in flight.
C32_ClarificationOnlyAsks ==
    [][\A u \in Users : \A res \in FrameResults(now) \cup {NoRes} :
       \A ti \in 1..Len(Texts) :
          process_text(u, res, ti)
          => /\ out'.kind = "clarify" <=> res.empty /\ HasVagueTime(Texts[ti])
             /\ out'.kind = "clarify"
                => /\ tasks' = tasks /\ jobs' = jobs /\ firing' = firing
                   /\ has_pc'
                   /\ EntriesOf(pending_clarifications', Texts[ti])
                         = {<<message_hash(Texts[ti]), Texts[ti]>>}
                   /\ pending_clarifications' \ EntriesOf(pending_clarifications', Texts[ti])
                         = pending_clarifications \ EntriesOf(pending_clarifications, Texts[ti])
             /\ out'.kind # "clarify"
                => pending_clarifications' = pending_clarifications]_vars

\* the buttons were just shown for a text while a task made from an
\* earlier pick is stored with its timer armed
C32_Witness ==
    /\ out.kind = "clarify"
    /\ \E e \in pending_clarifications : Texts[e[1]] = e[2]
    /\ Len(tasks) >= 1
    /\ HasTimer(tasks[1])

====
